---- MODULE Spec2Model ----
(***************************************************************************)
(* A model of the python_book site: the Docusaurus configuration object   *)
(* with its baidu-plugin hook (docusaurus.config.js), and the example     *)
(* classes of the chapter docs/magic_methods.md (Singleton, Fraction,     *)
(* SortedList, HistoricalAttributes, Polynomial).                         *)
(*                                                                         *)
(* Each component has its own specification (SpecConfig, SpecSingleton,   *)
(* SpecFraction, SpecSortedList, SpecHistory, SpecPolynomial) over its    *)
(* own variables; the other components' variables stay at their idle      *)
(* values.                                                                 *)
(***************************************************************************)
EXTENDS Integers, Sequences, FiniteSets, TLC

VARIABLES
    \* docusaurus.config.js
    config,         \* the exported configuration object
    instances,      \* the plugin objects baiduPlugin has returned, in order
    tagResults,     \* the values injectHtmlTags has returned, in order
    calls,          \* the framework's invocations so far: <<operation, argument>>
    \* Singleton
    _instance,      \* the class attribute Singleton._instance (None = 0)
    allocated,      \* how many objects object.__new__ has created
    returned,       \* what each Singleton() call returned, in order
    \* Fraction
    f1, f2,         \* two constructed Fraction objects
    fracArgs,       \* the constructor arguments they were built from
    cmpResult,      \* the results of the five comparisons of f1 and f2
    \* SortedList
    data,           \* SortedList.data
    slOps,          \* the operations applied to the list so far
    \* HistoricalAttributes
    __dict__,       \* the instance's attributes (name -> value)
    assigned,       \* per name, the values whose assignment succeeded
    setLog,         \* the obj.name = value statements so far and how each ended
    \* Polynomial
    coefficients,   \* Polynomial.coefficients
    polyX,          \* the argument of the last call p(x)
    polyResult      \* what that call returned

configVars == <<config, instances, tagResults, calls>>
singletonVars == <<_instance, allocated, returned>>
fractionVars == <<f1, f2, fracArgs, cmpResult>>
sortedVars == <<data, slOps>>
historyVars == <<__dict__, assigned, setLog>>
polyVars == <<coefficients, polyX, polyResult>>
vars == <<configVars, singletonVars, fractionVars, sortedVars, historyVars, polyVars>>

\* What a step of one component leaves alone: the other components.
configOthers == <<singletonVars, fractionVars, sortedVars, historyVars, polyVars>>
singletonOthers == <<configVars, fractionVars, sortedVars, historyVars, polyVars>>
fractionOthers == <<configVars, singletonVars, sortedVars, historyVars, polyVars>>
sortedOthers == <<configVars, singletonVars, fractionVars, historyVars, polyVars>>
historyOthers == <<configVars, singletonVars, fractionVars, sortedVars, polyVars>>
polyOthers == <<configVars, singletonVars, fractionVars, sortedVars, historyVars>>

(***************************************************************************)
(* Bounds of the model.                                                    *)
(***************************************************************************)
MaxCalls == 4

(***************************************************************************)
(* docusaurus.config.js                                                    *)
(***************************************************************************)

\* The literal of the exported object (its scalar top-level fields). The
\* title's two CJK characters are written "jiaocheng": the strings of the
\* model are opaque, only emptiness and equality matter.
configLiteral_emptyTitle ==
    [title |-> "", tagline |-> "Python, ..., PDF", url |-> "https://py.qizhen.xyz",
     baseUrl |-> "/", onBrokenLinks |-> "throw", onBrokenMarkdownLinks |-> "warn",
     favicon |-> "img/favicon.ico", projectName |-> "python_book"]

configLiteral ==
    [title |-> "Python jiaocheng", tagline |-> "Python, ..., PDF",
     url |-> "https://py.qizhen.xyz", baseUrl |-> "/",
     onBrokenLinks |-> "throw", onBrokenMarkdownLinks |-> "warn",
     favicon |-> "img/favicon.ico", projectName |-> "python_book"]

BaiduTag ==
    "<script type=\"text/javascript\" src=\"https://hm.baidu.com/hm.js?b3f6e7ec9302021671173e3fad14f4cd\"></script>"

\* What the framework may pass to the plugin factory and to the hook.
Contexts == {"siteDir", "outDir"}
Contents == {"", "<p>page</p>", BaiduTag}

\* A bug that echoes the page content into the injected tags.
injectHtmlTags_echo(content) == [postBodyTags |-> <<BaiduTag, content>>]

\* injectHtmlTags({content}): a fresh object with a one-element array.
injectHtmlTags(content) == [postBodyTags |-> <<BaiduTag>>]

\* baiduPlugin(context, options): a fresh plugin object.
baiduPlugin(context, options) == [name |-> "baidu-plugin"]

\* A bug that stores the hook's argument in the configuration.
CallInjectHtmlTags_writes(content) ==
    /\ Len(calls) < MaxCalls
    /\ instances # <<>>
    /\ tagResults' = Append(tagResults, injectHtmlTags(content))
    /\ calls' = Append(calls, <<"injectHtmlTags", content>>)
    /\ config' = [config EXCEPT !.tagline = content]
    /\ UNCHANGED instances
    /\ UNCHANGED configOthers

\* The framework calls the hook of a plugin object it holds.
CallInjectHtmlTags(content) ==
    /\ Len(calls) < MaxCalls
    /\ instances # <<>>
    /\ tagResults' = Append(tagResults, injectHtmlTags(content))
    /\ calls' = Append(calls, <<"injectHtmlTags", content>>)
    /\ UNCHANGED <<config, instances>>
    /\ UNCHANGED configOthers

\* The framework calls the plugin factory.
CallBaiduPlugin(context, options) ==
    /\ Len(calls) < MaxCalls
    /\ instances' = Append(instances, baiduPlugin(context, options))
    /\ calls' = Append(calls, <<"baiduPlugin", context>>)
    /\ UNCHANGED <<config, tagResults>>
    /\ UNCHANGED configOthers

ConfigIdle ==
    /\ config = configLiteral
    /\ instances = <<>>
    /\ tagResults = <<>>
    /\ calls = <<>>

ConfigNext ==
    \/ \E context \in Contexts : CallBaiduPlugin(context, "options")
    \/ \E content \in Contents : CallInjectHtmlTags(content)

(***************************************************************************)
(* Singleton (docs/magic_methods.md)                                       *)
(***************************************************************************)

\* Python's None; every object created has an identity 1, 2, ...
None == 0
\* A class whose own __dict__ holds no _instance entry.
Unset == -1

\* Singleton itself and classes deriving from it: __new__ receives cls.
Classes == {"Singleton", "SubA", "SubB"}

\* bool(v) of None or of an instance of a class defining neither __bool__
\* nor __len__.
Truthy(v) == v # None

\* cls._instance: the class's own entry, else the one inherited from Singleton.
ClassAttr(cls) ==
    IF _instance[cls] # Unset THEN _instance[cls] ELSE _instance["Singleton"]

\* A bug that creates a new object on every construction.
Singleton_new_always(cls) ==
    /\ Len(returned) < MaxCalls
    /\ allocated' = allocated + 1
    /\ _instance' = [_instance EXCEPT ![cls] = allocated + 1]
    /\ returned' = Append(returned, [cls |-> cls, obj |-> allocated + 1, created |-> TRUE])
    /\ UNCHANGED singletonOthers

\* Singleton.__new__(cls), called by cls().
Singleton_new(cls) ==
    /\ Len(returned) < MaxCalls
    /\ IF ~Truthy(ClassAttr(cls))
       THEN /\ allocated' = allocated + 1
            /\ _instance' = [_instance EXCEPT ![cls] = allocated + 1]
            /\ returned' = Append(returned,
                                  [cls |-> cls, obj |-> allocated + 1, created |-> TRUE])
       ELSE /\ returned' = Append(returned,
                                  [cls |-> cls, obj |-> ClassAttr(cls), created |-> FALSE])
            /\ UNCHANGED <<_instance, allocated>>
    /\ UNCHANGED singletonOthers

SingletonIdle ==
    /\ _instance = [c \in Classes |-> IF c = "Singleton" THEN None ELSE Unset]
    /\ allocated = 0
    /\ returned = <<>>

SingletonNext == \E cls \in Classes : Singleton_new(cls)

(***************************************************************************)
(* Fraction with the comparison methods (docs/magic_methods.md)            *)
(***************************************************************************)

\* Largest absolute value of a numerator or denominator passed in.
MaxFrac == 2
FracInts == (0 - MaxFrac) .. MaxFrac

Abs(n) == IF n < 0 THEN 0 - n ELSE n

\* math.gcd: the greatest common divisor of |a| and |b|, never negative.
RECURSIVE gcd(_, _)
gcd(a, b) == IF b = 0 THEN Abs(a) ELSE gcd(b, Abs(a) % Abs(b))

\* Python's a // b for b > 0: the floor of the quotient.
FloorDiv(a, b) == a \div b

\* Fraction.__init__(numerator, denominator).
Fraction_init(numerator, denominator) ==
    IF denominator = 0
    THEN [raised |-> "ValueError", numerator |-> 0, denominator |-> 0]
    ELSE LET common == gcd(numerator, denominator)
         IN  [raised |-> "none",
              numerator |-> FloorDiv(numerator, common),
              denominator |-> FloorDiv(denominator, common)]

Fraction_eq(self, other) ==
    self.numerator = other.numerator /\ self.denominator = other.denominator
Fraction_lt(self, other) ==
    self.numerator * other.denominator < other.numerator * self.denominator
Fraction_le(self, other) ==
    self.numerator * other.denominator <= other.numerator * self.denominator
Fraction_gt(self, other) ==
    self.numerator * other.denominator > other.numerator * self.denominator
Fraction_ge(self, other) ==
    self.numerator * other.denominator >= other.numerator * self.denominator

\* The test's five print statements on two constructed fractions.
CompareFractions ==
    /\ cmpResult = <<>>
    /\ f1.raised = "none" /\ f2.raised = "none"
    /\ cmpResult' = <<[eq |-> Fraction_eq(f1, f2), lt |-> Fraction_lt(f1, f2),
                       le |-> Fraction_le(f1, f2), gt |-> Fraction_gt(f1, f2),
                       ge |-> Fraction_ge(f1, f2)]>>
    /\ UNCHANGED <<f1, f2, fracArgs>>
    /\ UNCHANGED fractionOthers

FractionIdle ==
    /\ fracArgs = <<0, 1, 0, 1>>
    /\ f1 = Fraction_init(0, 1)
    /\ f2 = Fraction_init(0, 1)
    /\ cmpResult = <<>>

FractionInit ==
    /\ fracArgs \in FracInts \X FracInts \X FracInts \X FracInts
    /\ f1 = Fraction_init(fracArgs[1], fracArgs[2])
    /\ f2 = Fraction_init(fracArgs[3], fracArgs[4])
    /\ cmpResult = <<>>

FractionNext == CompareFractions

(***************************************************************************)
(* Polynomial (docs/magic_methods.md)                                      *)
(***************************************************************************)

\* Longest coefficient list, and largest absolute value of a coefficient or x.
MaxCoefs == 3
MaxPoly == 2
PolyInts == (0 - MaxPoly) .. MaxPoly

\* Python's x ** n for n >= 0 (0 ** 0 is 1).
RECURSIVE Pow(_, _)
Pow(x, n) == IF n = 0 THEN 1 ELSE x * Pow(x, n - 1)

\* sum(list)
RECURSIVE Sum(_)
Sum(list) == IF Len(list) = 0 THEN 0 ELSE Head(list) + Sum(Tail(list))

\* Polynomial.__call__(x): the sum of the list comprehension; enumerate's i
\* is the 1-based position k minus one.
Polynomial_call(coefs, x) ==
    Sum([k \in 1 .. Len(coefs) |-> coefs[k] * Pow(x, Len(coefs) - (k - 1) - 1)])

\* p(x) for an argument x.
CallPolynomial(x) ==
    /\ polyResult = <<>>
    /\ polyX' = x
    /\ polyResult' = <<Polynomial_call(coefficients, x)>>
    /\ UNCHANGED coefficients
    /\ UNCHANGED polyOthers

PolyIdle ==
    /\ coefficients = <<>>
    /\ polyX = 0
    /\ polyResult = <<>>

PolyInit ==
    /\ coefficients \in UNION {[1 .. n -> PolyInts] : n \in 0 .. MaxCoefs}
    /\ polyX = 0
    /\ polyResult = <<>>

PolyNext == \E x \in PolyInts : CallPolynomial(x)

(***************************************************************************)
(* SortedList (docs/magic_methods.md)                                      *)
(***************************************************************************)

\* Longest list, largest element, and most operations in a run.
MaxLen == 4
MaxVal == 2
MaxOps == 3
Vals == 0 .. MaxVal
Indexes == (0 - MaxLen - 1) .. MaxLen

\* Insert v into the sorted sequence s, after the elements that are <= v.
RECURSIVE Insert(_, _)
Insert(s, v) ==
    IF s = <<>> THEN <<v>>
    ELSE IF v < Head(s) THEN <<v>> \o s
    ELSE <<Head(s)>> \o Insert(Tail(s), v)

\* sorted(s) and list.sort(): the elements of s in ascending order (stable).
RECURSIVE Sorted(_)
Sorted(s) ==
    IF s = <<>> THEN <<>> ELSE Insert(Sorted(SubSeq(s, 1, Len(s) - 1)), s[Len(s)])

\* The 1-based position a Python index denotes in a list of length n, 0 when
\* the index is out of range (IndexError).
Position(index, n) ==
    IF 0 <= index /\ index < n THEN index + 1
    ELSE IF index < 0 /\ index >= 0 - n THEN index + n + 1
    ELSE 0

RemoveAt(s, k) == SubSeq(s, 1, k - 1) \o SubSeq(s, k + 1, Len(s))

\* SortedList.__init__(initial_data).
SortedList_init(initial_data) == Sorted(initial_data)

\* A bug that forgets to sort again after the assignment.
SortedList_setitem_nosort(self, index, value) ==
    IF Position(index, Len(self)) = 0 THEN self
    ELSE [self EXCEPT ![Position(index, Len(self))] = value]

\* SortedList.__setitem__(index, value): the new data (unchanged on IndexError).
SortedList_setitem(self, index, value) ==
    IF Position(index, Len(self)) = 0 THEN self
    ELSE Sorted([self EXCEPT ![Position(index, Len(self))] = value])

\* SortedList.__delitem__(index): the new data (unchanged on IndexError).
SortedList_delitem(self, index) ==
    IF Position(index, Len(self)) = 0 THEN self
    ELSE RemoveAt(self, Position(index, Len(self)))

\* SortedList.append(value): the new data.
SortedList_append(self, value) == Sorted(Append(self, value))

\* lst[index] = value
SetItem(index, value) ==
    /\ Len(slOps) < MaxOps
    /\ data' = SortedList_setitem(data, index, value)
    /\ slOps' = Append(slOps, IF Position(index, Len(data)) = 0
                              THEN "IndexError" ELSE "setitem")
    /\ UNCHANGED sortedOthers

\* del lst[index]
DelItem(index) ==
    /\ Len(slOps) < MaxOps
    /\ data' = SortedList_delitem(data, index)
    /\ slOps' = Append(slOps, IF Position(index, Len(data)) = 0
                              THEN "IndexError" ELSE "delitem")
    /\ UNCHANGED sortedOthers

\* lst.append(value)
AppendItem(value) ==
    /\ Len(slOps) < MaxOps
    /\ Len(data) < MaxLen
    /\ data' = SortedList_append(data, value)
    /\ slOps' = Append(slOps, "append")
    /\ UNCHANGED sortedOthers

SortedIdle ==
    /\ data = <<>>
    /\ slOps = <<>>

\* lst = SortedList(initial_data) for any list of at most MaxLen - 1 elements.
SortedInit ==
    /\ \E initial_data \in UNION {[1 .. n -> Vals] : n \in 0 .. (MaxLen - 1)} :
           data = SortedList_init(initial_data)
    /\ slOps = <<>>

SortedNext ==
    \/ \E index \in Indexes, value \in Vals : SetItem(index, value)
    \/ \E index \in Indexes : DelItem(index)
    \/ \E value \in Vals : AppendItem(value)

(***************************************************************************)
(* HistoricalAttributes (docs/magic_methods.md)                            *)
(***************************************************************************)

\* Most assignments in a run.
MaxSets == 3

\* Python values: an int n, a dict (map: key -> list of values) and a list
\* of strings (items).
EmptyMap == [k \in {} |-> <<>>]
IntObj(n) == [kind |-> "int", n |-> n, map |-> EmptyMap, items |-> <<>>]
DictObj(m) == [kind |-> "dict", n |-> 0, map |-> m, items |-> <<>>]
ListObj(items) == [kind |-> "list", n |-> 0, map |-> EmptyMap, items |-> items]

\* f with key k bound to v (added or replaced).
Bind(f, k, v) == [j \in DOMAIN f \cup {k} |-> IF j = k THEN v ELSE f[j]]

\* The names assigned to, and the values assigned: the test's 10 and 20, and
\* a fresh empty dict {}.
HistNames == {"x", "forbidden", "history", "_history", "_forbidden_attributes"}
HistVals == {IntObj(10), IntObj(20), DictObj(EmptyMap)}

\* key in container: "TypeError" when the container is not iterable.
Contains(container, key) ==
    CASE container.kind = "int" -> "TypeError"
      [] container.kind = "dict" -> IF key \in DOMAIN container.map THEN "yes" ELSE "no"
      [] OTHER -> IF \E i \in DOMAIN container.items : container.items[i] = key
                  THEN "yes" ELSE "no"

\* The history steps of __setattr__ (lines 324-326) on self._history.
Record(hist, name, value) ==
    LET had == IF name \in DOMAIN hist.map THEN hist.map[name] ELSE <<>>
    IN  DictObj(Bind(hist.map, name, Append(had, value)))

\* A bug that records the value before it checks the forbidden names.
HistoricalAttributes_setattr_recordsFirst(self, name, value) ==
    IF "_forbidden_attributes" \notin DOMAIN self
    THEN [raised |-> "none", self |-> Bind(self, name, value)]
    ELSE IF Contains(self["_history"], name) = "TypeError"
              \/ self["_history"].kind = "list"
    THEN [raised |-> "TypeError", self |-> self]
    ELSE LET recorded == Bind(self, "_history", Record(self["_history"], name, value))
         IN  IF Contains(self["_forbidden_attributes"], name) = "TypeError"
             THEN [raised |-> "TypeError", self |-> recorded]
             ELSE IF Contains(self["_forbidden_attributes"], name) = "yes"
             THEN [raised |-> "AttributeError", self |-> recorded]
             ELSE [raised |-> "none", self |-> Bind(recorded, name, value)]

\* HistoricalAttributes.__setattr__(name, value) on the instance dictionary
\* self: the exception raised ("none" if none) and the dictionary afterwards.
HistoricalAttributes_setattr(self, name, value) ==
    IF "_forbidden_attributes" \notin DOMAIN self
    THEN [raised |-> "none", self |-> Bind(self, name, value)]
    ELSE IF Contains(self["_forbidden_attributes"], name) = "TypeError"
    THEN [raised |-> "TypeError", self |-> self]
    ELSE IF Contains(self["_forbidden_attributes"], name) = "yes"
    THEN [raised |-> "AttributeError", self |-> self]
    ELSE IF Contains(self["_history"], name) = "TypeError"
    THEN [raised |-> "TypeError", self |-> self]
    ELSE IF self["_history"].kind = "list"
    THEN \* name not in a list of other names, then list[name] = []
         [raised |-> "TypeError", self |-> self]
    ELSE [raised |-> "none",
          self |-> Bind(Bind(self, "_history", Record(self["_history"], name, value)),
                        name, value)]

\* HistoricalAttributes.__init__(): the instance dictionary it leaves.
HistoricalAttributes_init ==
    LET empty == [k \in {} |-> IntObj(0)]
        first == HistoricalAttributes_setattr(empty, "_history", DictObj(EmptyMap)).self
    IN  HistoricalAttributes_setattr(first, "_forbidden_attributes",
                                     ListObj(<<"forbidden", "history">>)).self

\* HistoricalAttributes.history_of(name): the exception raised and the list.
history_of(self, name) ==
    IF self["_history"].kind # "dict"
    THEN [raised |-> "AttributeError", value |-> <<>>]
    ELSE [raised |-> "none",
          value |-> IF name \in DOMAIN self["_history"].map
                    THEN self["_history"].map[name] ELSE <<>>]

\* obj.name = value
SetAttr(name, value) ==
    LET r == HistoricalAttributes_setattr(__dict__, name, value)
    IN  /\ Len(setLog) < MaxSets
        /\ __dict__' = r.self
        /\ setLog' = Append(setLog, [name |-> name, value |-> value, raised |-> r.raised])
        /\ assigned' = IF r.raised = "none"
                       THEN [assigned EXCEPT ![name] = Append(@, value)]
                       ELSE assigned
        /\ UNCHANGED historyOthers

HistoryIdle ==
    /\ __dict__ = HistoricalAttributes_init
    /\ assigned = [name \in HistNames |-> <<>>]
    /\ setLog = <<>>

HistoryNext == \E name \in HistNames, value \in HistVals : SetAttr(name, value)

(***************************************************************************)
(* The specifications: one component runs, the others stay idle.           *)
(***************************************************************************)

InitConfig ==
    ConfigIdle /\ SingletonIdle /\ FractionIdle /\ SortedIdle /\ HistoryIdle /\ PolyIdle
InitSingleton == InitConfig
InitHistory == InitConfig
InitFraction ==
    ConfigIdle /\ SingletonIdle /\ FractionInit /\ SortedIdle /\ HistoryIdle /\ PolyIdle
InitSortedList ==
    ConfigIdle /\ SingletonIdle /\ FractionIdle /\ SortedInit /\ HistoryIdle /\ PolyIdle
InitPolynomial ==
    ConfigIdle /\ SingletonIdle /\ FractionIdle /\ SortedIdle /\ HistoryIdle /\ PolyInit

SpecConfig == InitConfig /\ [][ConfigNext]_vars
SpecSingleton == InitSingleton /\ [][SingletonNext]_vars
SpecFraction == InitFraction /\ [][FractionNext]_vars
SpecSortedList == InitSortedList /\ [][SortedNext]_vars
SpecHistory == InitHistory /\ [][HistoryNext]_vars
SpecPolynomial == InitPolynomial /\ [][PolyNext]_vars

(***************************************************************************)
(* The claims.                                                             *)
(***************************************************************************)

\* C1: in every state of a build, before and after any plugin call, the
\* configuration object has the fields title, url and baseUrl, and each is a
\* non-empty string.
C1_ConfigFieldsNonEmpty ==
    /\ {"title", "url", "baseUrl"} \subseteq DOMAIN config
    /\ config.title # ""
    /\ config.url # ""
    /\ config.baseUrl # ""

\* C1's case: the factory and the hook have both been invoked.
C1_Witness ==
    /\ instances # <<>>
    /\ tagResults # <<>>
    /\ config.url = "https://py.qizhen.xyz"

\* C2: every injectHtmlTags invocation so far, whatever its argument and
\* however many came before, returned the same value: postBodyTags holding
\* exactly one element, the Baidu script tag.
C2_InjectedTagsFixed ==
    \A i \in DOMAIN tagResults :
        /\ DOMAIN tagResults[i] = {"postBodyTags"}
        /\ Len(tagResults[i].postBodyTags) = 1
        /\ tagResults[i].postBodyTags[1] = BaiduTag
        /\ \A j \in DOMAIN tagResults : tagResults[j] = tagResults[i]

\* C2's case: the hook has run at least twice with different arguments.
C2_Witness ==
    /\ Len(tagResults) >= 2
    /\ \E i, j \in DOMAIN calls :
           /\ calls[i][1] = "injectHtmlTags" /\ calls[j][1] = "injectHtmlTags"
           /\ calls[i][2] # calls[j][2]

\* C3: no call of the baiduPlugin factory or of its injectHtmlTags hook
\* changes any field of the configuration object, and every plugin object
\* the factory has returned is named 'baidu-plugin'.
C3_ConfigImmutable ==
    [][/\ config' = config
       /\ \A i \in DOMAIN instances' : instances'[i].name = "baidu-plugin"]_vars

\* C3's case: factory and hook calls interleaved, the hook called twice.
C3_Witness ==
    /\ Len(instances) >= 2
    /\ Len(tagResults) >= 2
    /\ config = configLiteral

\* C5: SortedList.data is in non-decreasing order after construction and
\* after every append, lst[i] = v and del lst[i].
C5_DataSorted == \A i \in 1 .. (Len(data) - 1) : data[i] <= data[i + 1]

\* C5's case: an item assignment, a deletion and an append have all acted
\* on a list that still has two different elements.
C5_Witness ==
    /\ \E i \in DOMAIN slOps : slOps[i] = "setitem"
    /\ \E i \in DOMAIN slOps : slOps[i] = "delitem"
    /\ \E i \in DOMAIN slOps : slOps[i] = "append"
    /\ Len(data) >= 2
    /\ data[1] # data[Len(data)]

\* The value the docstring describes: element i (from 0) multiplies x^i.
LowToHigh(coefs, x) == Sum([k \in 1 .. Len(coefs) |-> coefs[k] * Pow(x, k - 1)])

\* C6: p(x) returns the sum over i of coefficients[i] * x^i.
C6_CoefficientOfXToTheI ==
    polyResult # <<>> => polyResult[1] = LowToHigh(coefficients, polyX)

\* The order of two rationals n1/d1 and n2/d2 with non-zero denominators.
Sgn(n) == IF n < 0 THEN -1 ELSE IF n > 0 THEN 1 ELSE 0
RatLess(n1, d1, n2, d2) == n1 * d2 * Sgn(d1 * d2) < n2 * d1 * Sgn(d1 * d2)
RatEqual(n1, d1, n2, d2) == n1 * d2 = n2 * d1

\* C7: for all numerators and non-zero denominators of either sign, the
\* five comparisons of two Fractions return the comparison of their
\* rational values numerator/denominator.
C7_ComparesRationalValues ==
    cmpResult # <<>> =>
        LET n1 == fracArgs[1]
            d1 == fracArgs[2]
            n2 == fracArgs[3]
            d2 == fracArgs[4]
        IN  /\ cmpResult[1].eq = RatEqual(n1, d1, n2, d2)
            /\ cmpResult[1].lt = RatLess(n1, d1, n2, d2)
            /\ cmpResult[1].le = (RatLess(n1, d1, n2, d2) \/ RatEqual(n1, d1, n2, d2))
            /\ cmpResult[1].gt = RatLess(n2, d2, n1, d1)
            /\ cmpResult[1].ge = (RatLess(n2, d2, n1, d1) \/ RatEqual(n1, d1, n2, d2))

\* C8: every Singleton() call has returned the same object: the first one
\* created it, and no later one created another.
C8_SingleInstance ==
    \A i, j \in DOMAIN returned :
        (returned[i].cls = "Singleton" /\ returned[j].cls = "Singleton" /\ i <= j) =>
            /\ returned[i].obj = returned[j].obj
            /\ returned[i].obj # None
            /\ i < j => ~returned[j].created
            /\ (\A k \in 1 .. (i - 1) : returned[k].cls # "Singleton") => returned[i].created

\* C8's case: Singleton() has been called at least three times.
C8_Witness ==
    \E i, j, k \in DOMAIN returned :
        /\ i < j /\ j < k
        /\ returned[i].cls = "Singleton"
        /\ returned[j].cls = "Singleton"
        /\ returned[k].cls = "Singleton"

\* C9: after any sequence of assignments, history_of(name) returns exactly
\* the values assigned to name, in order (the empty list for a name never
\* assigned).
C9_HistoryIsWhatWasAssigned ==
    \A name \in HistNames :
        history_of(__dict__, name) = [raised |-> "none", value |-> assigned[name]]

\* The names _forbidden_attributes lists in the instance dictionary self.
Listed(self, name) == Contains(self["_forbidden_attributes"], name) = "yes"

\* C10: an assignment to a name that _forbidden_attributes lists raises
\* AttributeError and changes nothing: no attribute is set and history_of
\* answers as before.
C10_ForbiddenLeavesObjectUnchanged ==
    [][(/\ Len(setLog') = Len(setLog) + 1
        /\ Listed(__dict__, setLog'[Len(setLog')].name))
       => (/\ setLog'[Len(setLog')].raised = "AttributeError"
           /\ __dict__' = __dict__
           /\ \A name \in HistNames :
                  history_of(__dict__', name) = history_of(__dict__, name))]_vars

\* C10's case: 'forbidden' was assigned after x had a history, and it raised.
C10_Witness ==
    /\ Len(setLog) >= 2
    /\ setLog[Len(setLog)].name = "forbidden"
    /\ setLog[Len(setLog)].raised = "AttributeError"
    /\ history_of(__dict__, "x").value # <<>>

====
